---- MODULE Spec2Model ----
(***************************************************************************)
(* implicit-pdf: the SO(3) <-> Euler converter of implicit_pdf/utils.py    *)
(* and the distribution plotter of implicit_pdf/recorder.py.               *)
(*                                                                         *)
(* Numbers.  A real number is carried as an integer count of 1e-9 units    *)
(* (ONE is 1.0).  An angle is carried by its (cos, sin) pair, which        *)
(* determines the principal value that arcsin and atan2 return; sin and    *)
(* cos of an angle read the pair back.                                     *)
(***************************************************************************)
EXTENDS Integers, Sequences, FiniteSets, TLC

----------------------------------------------------------------------------
(* Fixed-point arithmetic                                                  *)

ONE == 10^9

Abs(a) == IF a < 0 THEN -a ELSE a

Sgn(a) == IF a < 0 THEN -1 ELSE IF a = 0 THEN 0 ELSE 1

Max2(a, b) == IF a >= b THEN a ELSE b

\* The product of a2*10^6 + a1*10^3 + a0 and b2*10^6 + b1*10^3 + b0, over ONE,
\* rounded to nearest.
MulLimbs(a2, a1, a0, b2, b1, b0) ==
    a2 * b2 * 1000 + (a2 * b1 + a1 * b2)
      + (((a2 * b0 + a1 * b1 + a0 * b2)
           + (((a1 * b0 + a0 * b1) + ((a0 * b0) \div 1000)) \div 1000) + 500) \div 1000)

\* a*b/ONE for a, b >= 0, rounded to nearest, by three limbs of 10^3 so that
\* no intermediate leaves 32 bits.
MulNat(a, b) ==
    MulLimbs(a \div 1000000, (a \div 1000) % 1000, a % 1000,
             b \div 1000000, (b \div 1000) % 1000, b % 1000)

Mul(a, b) == Sgn(a) * Sgn(b) * MulNat(Abs(a), Abs(b))

\* Newton's iteration for rho = 1/(2*sqrt(v)), v in [0.25, 2):
\* rho' = rho + rho*(1 - 4*v*rho^2)/2.
RECURSIVE RsqrtIter(_, _, _)
RsqrtIter(v, rho, n) ==
    IF n = 0 THEN rho
    ELSE RsqrtIter(v, rho + (Mul(rho, ONE - 4 * Mul(Mul(v, rho), rho)) \div 2), n - 1)

\* The first guess: the chord of 1/(2*sqrt(v)) over [0.25, 0.5), [0.5, 1) or
\* [1, 2), within 5% of the root.
RsqrtGuess(v) ==
    IF v < ONE \div 2 THEN ONE - Mul(1171572875, v - ONE \div 4)
    ELSE IF v < ONE THEN 707106781 - Mul(414213562, v - ONE \div 2)
    ELSE 500000000 - Mul(146446609, v - ONE)

\* 1/(2*sqrt(v)) for v in [0.25, 2): three steps from the guess reach the last
\* digit.
HalfRsqrt(v) == RsqrtIter(v, RsqrtGuess(v), 3)

\* sqrt(v) for v in [0, 1]: v is scaled by 4^k into [0.25, 1) first.
RECURSIVE Sqrt(_)
Sqrt(v) ==
    IF v <= 0 THEN 0
    ELSE IF v >= ONE THEN ONE
    ELSE IF v < ONE \div 4 THEN (Sqrt(4 * v) + 1) \div 2
    ELSE 2 * Mul(v, HalfRsqrt(v))

Clamp1(a) == IF a > ONE THEN ONE ELSE IF a < -ONE THEN -ONE ELSE a

----------------------------------------------------------------------------
(* Angles                                                                  *)

Sin(a) == a.s

Cos(a) == a.c

NegAngle(a) == [c |-> a.c, s |-> -a.s]

ZeroAngle == [c |-> ONE, s |-> 0]

\* k * pi/2 for k = +1 or -1.
HalfPiTimes(k) == [c |-> 0, s |-> k * ONE]

\* (x, y) * 2 * rho, as an angle.
Scaled(x, y, rho) == [c |-> Clamp1(2 * Mul(x, rho)), s |-> Clamp1(2 * Mul(y, rho))]

\* The direction of (x, y) with max(|x|, |y|) in [0.5, 1.08].
UnitScaled(x, y) == Scaled(x, y, HalfRsqrt(Mul(x, x) + Mul(y, y)))

\* atan2(y, x): the angle of the direction of (x, y); exact on the axes,
\* atan2(0, 0) = 0.
RECURSIVE Atan2(_, _)
Atan2(y, x) ==
    IF y = 0 THEN (IF x >= 0 THEN ZeroAngle ELSE [c |-> -ONE, s |-> 0])
    ELSE IF x = 0 THEN HalfPiTimes(Sgn(y))
    ELSE IF Max2(Abs(x), Abs(y)) < ONE \div 2 THEN Atan2(2 * y, 2 * x)
    ELSE UnitScaled(x, y)

\* arcsin(s) for |s| <= 1: the angle in [-pi/2, pi/2] whose sine is s.
ArcSin(s) == [c |-> Sqrt(Mul(ONE - s, ONE + s)), s |-> s]

\* a * 4 * rho^2
TimesSquare(a, rho) == Clamp1(4 * Mul(Mul(a, rho), rho))

\* a / b for 0 < b < 2 and |a| <= b, through 1/b = 4 * rho^2.
RECURSIVE Div(_, _)
Div(a, b) ==
    IF b < ONE \div 4 THEN Div(2 * a, 2 * b)
    ELSE TimesSquare(a, HalfRsqrt(b))

----------------------------------------------------------------------------
(* implicit_pdf/utils.py                                                   *)

\* A matrix is the sequence of its rows; m[i+1][j+1] is the code's m[i, j].
Identity3 == << <<ONE, 0, 0>>, <<0, ONE, 0>>, <<0, 0, ONE>> >>

Rows(m) == Len(m)

Cols(m) == IF Len(m) = 0 THEN 0 ELSE Len(m[1])

\* m[..., i, j] raises IndexError when the index is outside the matrix.
InRange(m, i, j) == i + 1 <= Rows(m) /\ j + 1 <= Cols(m)

At(m, i, j) == m[i + 1][j + 1]

nonzero_sign(x) == IF x >= 0 THEN 1 ELSE -1

eps_addition == 238

\* Lines 52-60 of general_case, given theta_y: theta_z and theta_x, and the
\* three angles stacked.
general_case_given(rotation_matrix, theta_y, eps) ==
    LET sign_cos_theta_y == nonzero_sign(Cos(theta_y))
        r00 == nonzero_sign(At(rotation_matrix, 0, 0)) * eps + At(rotation_matrix, 0, 0)
        r10 == At(rotation_matrix, 1, 0)
        r21 == At(rotation_matrix, 2, 1)
        r22 == nonzero_sign(At(rotation_matrix, 2, 2)) * eps + At(rotation_matrix, 2, 2)
    IN  << Atan2(r21 * sign_cos_theta_y, r22 * sign_cos_theta_y),
           theta_y,
           Atan2(r10 * sign_cos_theta_y, r00 * sign_cos_theta_y) >>

\* The three angles with theta_x and theta_z in each other's place.
Swapped(angles) == <<angles[3], angles[2], angles[1]>>

\* general_case with theta_x and theta_z stacked in each other's place.
general_case_swapped(rotation_matrix, r20, eps) ==
    Swapped(general_case_given(rotation_matrix, NegAngle(ArcSin(r20)), eps))

\* theta_y = -arcsin(r20), then the rest.
general_case(rotation_matrix, r20, eps) ==
    general_case_given(rotation_matrix, NegAngle(ArcSin(r20)), eps)

gimbal_lock(rotation_matrix, r20, eps) ==
    LET r01 == At(rotation_matrix, 0, 1)
        sign_r20 == nonzero_sign(r20)
        r02 == nonzero_sign(At(rotation_matrix, 0, 2)) * eps + At(rotation_matrix, 0, 2)
    IN  << Atan2(-sign_r20 * r01, -sign_r20 * r02), HalfPiTimes(-sign_r20), ZeroAngle >>

\* The entries so3_to_euler reads: [2,0], [0,0], [1,0], [2,1], [2,2], [0,1], [0,2].
so3_readable(m) == InRange(m, 2, 2)

\* so3[..., 2, 0] of one matrix.
r20_of(m) == At(m, 2, 0)

\* so3_to_euler with the mask reduced over the whole batch.
so3_to_euler_anymask(so3) ==
    [i \in DOMAIN so3 |->
        IF \E k \in DOMAIN so3 : Abs(r20_of(so3[k])) = ONE
        THEN gimbal_lock(so3[i], r20_of(so3[i]), eps_addition)
        ELSE general_case(so3[i], r20_of(so3[i]), eps_addition)]

\* torch.where(gimbal_mask, gimbal_solution, general_solution): element by
\* element of the batch, the gimbal solution where |r20| = 1.
so3_to_euler(so3) ==
    [i \in DOMAIN so3 |->
        IF Abs(r20_of(so3[i])) = ONE
        THEN gimbal_lock(so3[i], r20_of(so3[i]), eps_addition)
        ELSE general_case(so3[i], r20_of(so3[i]), eps_addition)]

\* Lines 89-103: the matrix from the sines and cosines of the three angles.
euler_matrix(sx, sy, sz, cx, cy, cz) ==
    << <<Mul(cy, cz), Mul(Mul(sx, sy), cz) - Mul(cx, sz), Mul(Mul(cx, sy), cz) + Mul(sx, sz)>>,
       <<Mul(cy, sz), Mul(Mul(sx, sy), sz) + Mul(cx, cz), Mul(Mul(cx, sy), sz) - Mul(sx, cz)>>,
       <<-sy, Mul(sx, cy), Mul(cx, cy)>> >>

\* One (..., 3) triple of angles to one 3x3 matrix.
euler_to_so3_one(a) ==
    euler_matrix(Sin(a[1]), Sin(a[2]), Sin(a[3]), Cos(a[1]), Cos(a[2]), Cos(a[3]))

\* angles of shape (n, 3) to matrices of shape (n, 3, 3).
euler_to_so3(angles) == [i \in DOMAIN angles |-> euler_to_so3_one(angles[i])]

\* torch.norm(v, dim=-1)
Norm(v) == Sqrt(Mul(v[1], v[1]) + Mul(v[2], v[2]) + Mul(v[3], v[3]))

\* torch.nn.functional.normalize(v, dim=-1) of one vector: v / max(|v|, 1e-12).
DivideBy(v, n) ==
    IF n = 0 THEN [k \in DOMAIN v |-> 0]
    ELSE [k \in DOMAIN v |-> Div(v[k], n)]

NormalizeVec(v) == DivideBy(v, Norm(v))

\* normalize(t, dim=-1) of a (3, 3) tensor normalizes each row.
NormalizeRows(m) == [r \in DOMAIN m |-> NormalizeVec(m[r])]

Angle(c, s) == [c |-> c, s |-> s]

\* kornia's rotation_matrix_to_angle_axis (the logarithm of a rotation), on the
\* rotations about one coordinate axis by an angle whose radians are tabled:
\* the rotation by t about e_k has the axis-angle vector t * e_k.
Radians == { <<ZeroAngle, 0>>,
             <<Angle(800000000, 600000000), 643501109>>,
             <<Angle(600000000, 800000000), 927295218>> }

LogTable ==
    { [m |-> euler_to_so3_one(<<e[1], ZeroAngle, ZeroAngle>>), omega |-> <<e[2], 0, 0>>] : e \in Radians }
    \cup { [m |-> euler_to_so3_one(<<ZeroAngle, e[1], ZeroAngle>>), omega |-> <<0, e[2], 0>>] : e \in Radians }
    \cup { [m |-> euler_to_so3_one(<<ZeroAngle, ZeroAngle, e[1]>>), omega |-> <<0, 0, e[2]>>] : e \in Radians }

HasLog(m) == \E e \in LogTable : e.m = m

rotation_matrix_to_angle_axis(so3) ==
    [i \in DOMAIN so3 |-> (CHOOSE e \in LogTable : e.m = so3[i]).omega]

\* The shape of a batch of equally shaped matrices.
Shape3(t) == <<Len(t), Rows(t[1]), Cols(t[1])>>

\* angle keeps the batch shape (N,); normalize keeps the shape of its argument.
axis_angle_of(so3, omega_vector) ==
    [angle |-> [i \in DOMAIN so3 |-> Norm(omega_vector[i])],
     angle_shape |-> <<Len(so3)>>,
     axis |-> [i \in DOMAIN so3 |-> NormalizeRows(so3[i])],
     axis_shape |-> Shape3(so3)]

so3_to_axis_angle(so3) == axis_angle_of(so3, rotation_matrix_to_angle_axis(so3))

----------------------------------------------------------------------------
(* The converter's callers                                                 *)

VARIABLES conv_so3, conv_eulers, conv_back, conv_axis_angle, conv_pc

conv_vars == <<conv_so3, conv_eulers, conv_back, conv_axis_angle, conv_pc>>

\* The plotter's state, declared with its callers below.
VARIABLES pyplot, call

plot_vars == <<pyplot, call>>

vars == <<conv_vars, plot_vars>>

MaxBatch == 2

XAngles == { ZeroAngle, Angle(600000000, 800000000), Angle(-800000000, -600000000),
             Angle(800000000, 600000000) }

\* cos(theta_y): 1, 0.8, 0.6, -0.6, 0.141 (|r20| = 0.99), 0.002 (near the lock),
\* and the two locks.
YAngles == { ZeroAngle, Angle(800000000, 600000000), Angle(600000000, -800000000),
             Angle(-600000000, 800000000), Angle(141067360, 990000000),
             Angle(2000000, 999998000), HalfPiTimes(1), HalfPiTimes(-1) }

ZAngles == { ZeroAngle, Angle(-600000000, 800000000), Angle(800000000, -600000000),
             Angle(600000000, 800000000) }

\* The rotations a batch is filled up with: a lock of each sign and a general one.
MixRotations ==
    { euler_to_so3_one(<<Angle(600000000, 800000000), y, Angle(800000000, -600000000)>>) :
        y \in { HalfPiTimes(1), HalfPiTimes(-1), Angle(800000000, 600000000) } }

\* Matrices that are not 3x3: a 4x4 homogeneous transform, and a 2x2 rotation.
Homogeneous44 ==
    << <<0, -ONE, 0, 500000000>>, <<ONE, 0, 0, 250000000>>, <<0, 0, ONE, 0>>, <<0, 0, 0, ONE>> >>

Planar22 == << <<600000000, -800000000>>, <<800000000, 600000000>> >>

MalformedMatrices == { Homogeneous44, Planar22 }

ConvInit ==
    /\ conv_so3 = <<>>
    /\ conv_eulers = <<>>
    /\ conv_back = <<>>
    /\ conv_axis_angle = <<>>
    /\ conv_pc = "idle"

\* The caller makes a rotation from Euler angles and starts a batch with it.
GenRotation ==
    \E x \in XAngles, y \in YAngles, z \in ZAngles :
        /\ conv_pc = "idle"
        /\ conv_so3' = <<euler_to_so3_one(<<x, y, z>>)>>
        /\ conv_eulers' = <<>>
        /\ conv_back' = <<>>
        /\ conv_axis_angle' = <<>>
        /\ conv_pc' = "input"
        /\ UNCHANGED plot_vars

AppendRotation ==
    \E m \in MixRotations :
        /\ conv_pc = "input"
        /\ Len(conv_so3) < MaxBatch
        /\ \A i \in DOMAIN conv_so3 : Rows(conv_so3[i]) = 3 /\ Cols(conv_so3[i]) = 3
        /\ conv_so3' = Append(conv_so3, m)
        /\ UNCHANGED <<conv_eulers, conv_back, conv_axis_angle, conv_pc, plot_vars>>

GenMalformed ==
    \E m \in MalformedMatrices :
        /\ conv_pc = "idle"
        /\ conv_so3' = <<m>>
        /\ conv_eulers' = <<>>
        /\ conv_back' = <<>>
        /\ conv_axis_angle' = <<>>
        /\ conv_pc' = "input"
        /\ UNCHANGED plot_vars

CallSo3ToEuler ==
    /\ conv_pc = "input"
    /\ IF \A i \in DOMAIN conv_so3 : so3_readable(conv_so3[i])
       THEN /\ conv_eulers' = so3_to_euler(conv_so3)
            /\ conv_pc' = "euler"
       ELSE /\ conv_eulers' = <<>>
            /\ conv_pc' = "IndexError"
    /\ UNCHANGED <<conv_so3, conv_back, conv_axis_angle, plot_vars>>

CallEulerToSo3 ==
    /\ conv_pc = "euler"
    /\ conv_back' = euler_to_so3(conv_eulers)
    /\ conv_pc' = "back"
    /\ UNCHANGED <<conv_so3, conv_eulers, conv_axis_angle, plot_vars>>

CallSo3ToAxisAngle ==
    /\ conv_pc = "input"
    /\ \A i \in DOMAIN conv_so3 : HasLog(conv_so3[i])
    /\ conv_axis_angle' = so3_to_axis_angle(conv_so3)
    /\ conv_pc' = "axis"
    /\ UNCHANGED <<conv_so3, conv_eulers, conv_back, plot_vars>>

\* The caller drops the batch and its results.
ConvDone ==
    /\ conv_pc \in {"euler", "back", "axis", "IndexError"}
    /\ conv_so3' = <<>>
    /\ conv_eulers' = <<>>
    /\ conv_back' = <<>>
    /\ conv_axis_angle' = <<>>
    /\ conv_pc' = "idle"
    /\ UNCHANGED plot_vars

ConvNext ==
    \/ ConvDone
    \/ GenRotation
    \/ AppendRotation
    \/ GenMalformed
    \/ CallSo3ToEuler
    \/ CallEulerToSo3
    \/ CallSo3ToAxisAngle


----------------------------------------------------------------------------
(* matplotlib.pyplot, as recorder.py uses it                               *)

\* pyplot's global state: figs is the open figures' numbers in the order of
\* their activation (the last one is the current figure, plt.gcf()), and
\* canvas[n] is figure n's size in inches and the artists drawn on it so far.
\* An axes is identified with the figure it belongs to.  A running call carries
\* st = [py, log, created]: pyplot's state, the draw calls the call has made,
\* and the numbers of the figures it has created.

None == 0

SeqRange(q) == { q[i] : i \in DOMAIN q }

SetMax(S) == CHOOSE m \in S : \A n \in S : n <= m

\* plt.figure() numbers a new figure max(open numbers) + 1.
NextNum(py) == IF py.figs = <<>> THEN 1 ELSE SetMax(SeqRange(py.figs)) + 1

\* plt.gcf() of a state with an open figure.
Gcf(py) == py.figs[Len(py.figs)]

Blank(figsize) == [figsize |-> figsize, artists |-> <<>>]

\* fig = plt.figure(figsize=figsize, dpi=100): the new figure becomes current.
PltFigure(st, figsize) ==
    LET n == NextNum(st.py)
    IN  [st EXCEPT
            !.py = [figs |-> Append(st.py.figs, n),
                    canvas |-> [k \in SeqRange(st.py.figs) \cup {n} |->
                                   IF k = n THEN Blank(figsize) ELSE st.py.canvas[k]]],
            !.created = st.created \cup {n}]

\* plt.close(figure): the figure leaves pyplot; the others keep their order.
PltClose(st, f) ==
    [st EXCEPT
        !.py = [figs |-> SelectSeq(st.py.figs, LAMBDA k : k # f),
                canvas |-> [k \in SeqRange(st.py.figs) \ {f} |-> st.py.canvas[k]]]]

\* The draw calls as figure f records them.
Tagged(artists, f) == [k \in DOMAIN artists |-> [artists[k] EXCEPT !.fig = f]]

DrawTagged(st, f, drawn) ==
    [st EXCEPT !.py.canvas[f].artists = @ \o drawn, !.log = @ \o drawn]

\* Draw calls on figure f, in order, each with its arguments.
DrawAll(st, f, artists) == DrawTagged(st, f, Tagged(artists, f))

Draw(st, f, artist) == DrawAll(st, f, <<artist>>)

\* How a call ends: with pyplot as it leaves it, what it drew and created, and
\* the value it returns or the error it raises.
Returned(st, value) ==
    [py |-> st.py, log |-> st.log, created |-> st.created,
     outcome |-> "returned", result |-> value]

Raised(st, error) ==
    [py |-> st.py, log |-> st.log, created |-> st.created,
     outcome |-> error, result |-> None]

\* The default size of a figure pyplot makes by itself, in hundredths of an inch.
DefaultFigsize == <<640, 480>>

\* savefig(format="png", dpi=100) and PIL's decoding of the buffer: the pixel
\* array of the saved figure, its size in pixels and what is drawn on it.
Pixels(figure) == [size |-> figure.figsize, raster |-> figure.artists]

----------------------------------------------------------------------------
(* implicit_pdf/recorder.py                                                *)

\* plt.savefig saves pyplot's current figure (making one when none is open);
\* fault is the step at which the rendering backend fails, if any.
figure_to_array(st, figure, fault) ==
    LET st1 == IF st.py.figs = <<>> THEN PltFigure(st, DefaultFigsize) ELSE st
        saved == Gcf(st1.py)
    IN  IF fault = "savefig" THEN Raised(st1, "RenderBackendError")
        ELSE LET data == Pixels(st1.py.canvas[saved])
                 st2 == PltClose(st1, figure)
             IN  IF fault = "decode" THEN Raised(st2, "RenderBackendError")
                 ELSE Returned(st2, data)

\* torch.matmul of two 3x3 matrices.
MatMul(a, b) ==
    [r \in 1..3 |-> [c \in 1..3 |->
        Mul(a[r][1], b[1][c]) + Mul(a[r][2], b[2][c]) + Mul(a[r][3], b[3][c])]]

\* plt.cm.hsv(0.5 + tilt_angle / 2 / pi)
Cmap(tilt_angle) == [cmap |-> "hsv", tilt |-> tilt_angle]

\* edgecolors="none"
NoColor == [cmap |-> "none", tilt |-> ZeroAngle]

\* The keyword arguments of ax.scatter, "default" where the call gives none.
Scatter(x, y, s, c, edgecolors, facecolors, marker, linewidth) ==
    [call |-> "scatter", fig |-> None, x |-> x, y |-> y, s |-> s, c |-> c,
     edgecolors |-> edgecolors, facecolors |-> facecolors, marker |-> marker,
     linewidth |-> linewidth]

Plain(name) == [call |-> name, fig |-> None]

\* Lines 141-145: xyz = rotation[:, 0], longitude = arctan2(xyz[0], -xyz[1]).
longitude_of(rotation) == Atan2(At(rotation, 0, 0), -At(rotation, 1, 0))

\* latitude = arcsin(xyz[2])
latitude_of(rotation) == ArcSin(At(rotation, 2, 0))

\* tilt_angle = eulers[0], the first angle of so3_to_euler of the one rotation.
tilt_angle_of(eulers) == eulers[1]

show_single_marker(rotation, marker, edgecolors, facecolors) ==
    Scatter(<<longitude_of(rotation)>>, <<latitude_of(rotation)>>, <<2500>>, "default",
            IF edgecolors THEN Cmap(tilt_angle_of(so3_to_euler(<<rotation>>)[1])) ELSE NoColor,
            IF facecolors # "" THEN facecolors ELSE "none",
            marker, 4)

\* The two loops with each rotation's fill drawn right after its outline.
gt_markers_interleaved(display_rotations_gt) ==
    [k \in 1..(2 * Len(display_rotations_gt)) |->
        IF k % 2 = 1
        THEN show_single_marker(display_rotations_gt[(k + 1) \div 2], "o", TRUE, "")
        ELSE show_single_marker(display_rotations_gt[k \div 2], "o", FALSE, "#ffffff")]

\* The two loops over display_rotations_gt: the outlines, then the white fills.
gt_markers(display_rotations_gt) ==
    [k \in DOMAIN display_rotations_gt |->
        show_single_marker(display_rotations_gt[k], "o", TRUE, "")]
    \o [k \in DOMAIN display_rotations_gt |->
        show_single_marker(display_rotations_gt[k], "o", FALSE, "#ffffff")]

\* Ground truth is [dim |-> 0] (None), [dim |-> 2, data |-> a matrix] or
\* [dim |-> 3, data |-> a batch of matrices].
NoGt == [dim |-> 0, data |-> <<>>]

\* The broadcast left out.
broadcast_gt_missing(rotations_gt) == rotations_gt

\* rotations_gt[None, :] when rotations_gt.dim() == 2
broadcast_gt(rotations_gt) ==
    IF rotations_gt.dim = 2
    THEN [dim |-> 3, data |-> <<rotations_gt.data>>]
    ELSE rotations_gt

\* A probability is a count of 1e-4; a threshold is the fraction num/den of
\* such counts.
Exceeds(p, threshold) == p * threshold.den > threshold.num

\* The mask with >= in the place of >.
which_to_display_inclusive(probabilities, threshold) ==
    [i \in DOMAIN probabilities |-> probabilities[i] * threshold.den >= threshold.num]

\* probabilities > display_threshold_probability
which_to_display(probabilities, threshold) ==
    [i \in DOMAIN probabilities |-> Exceeds(probabilities[i], threshold)]

\* t[mask]: the entries of t where the mask is true, in order.
Masked(t, mask) ==
    LET idx == SelectSeq([i \in DOMAIN t |-> i], LAMBDA i : mask[i])
    IN  [k \in DOMAIN idx |-> t[idx[k]]]

scatterpoint_scaling == 4000

\* The color wheel: fig.add_axes, ax.pcolormesh and the tick labels on fig,
\* then plt.text on the current axes of pyplot's current figure.
color_wheel(st, fig) ==
    LET st1 == Draw(st, fig, Plain("add_axes_polar"))
        st2 == Draw(st1, fig, Plain("pcolormesh"))
    IN  Draw(st2, Gcf(st2.py), Plain("text_psi"))

\* Lines 195-200: the one scatter call that draws the distribution, from the
\* Euler angles of the display rotations and the mask.
scatter_masked(display_rotations, eulers_queries, probabilities, mask) ==
    Scatter(Masked([i \in DOMAIN display_rotations |-> longitude_of(display_rotations[i])], mask),
            Masked([i \in DOMAIN display_rotations |-> latitude_of(display_rotations[i])], mask),
            Masked([i \in DOMAIN probabilities |-> scatterpoint_scaling * probabilities[i]], mask),
            Masked([i \in DOMAIN eulers_queries |-> Cmap(tilt_angle_of(eulers_queries[i]))], mask),
            "default", "default", "default", "default")

\* Lines 166-176: eulers_queries = so3_to_euler(display_rotations).
distribution_scatter(display_rotations, probabilities, mask) ==
    scatter_masked(display_rotations, so3_to_euler(display_rotations), probabilities, mask)

\* a = [rotations, probabilities, rotations_gt, ax, fig,
\*      display_threshold_probability, to_image, show_color_wheel,
\*      canonical_rotation].  plot_pdf runs in four stages over its frame s: the
\* state of pyplot, what the call has drawn and created, its local variables,
\* and its outcome, "running" until an error is raised.

\* Lines 158-165: the figure when no axes is given, the broadcast of the ground
\* truth, and the display rotations; torch.matmul of (N, 4, 4) by (3, 3) raises
\* RuntimeError.
plot_pdf_begin(st, a) ==
    LET st1 == IF a.ax = None THEN PltFigure(st, <<800, 400>>) ELSE st
        fig == IF a.ax = None THEN NextNum(st.py) ELSE a.fig
        matmul_ok == \A i \in DOMAIN a.rotations :
                         Rows(a.rotations[i]) = 3 /\ Cols(a.rotations[i]) = 3
    IN  [py |-> st1.py, log |-> st1.log, created |-> st1.created,
         outcome |-> IF matmul_ok THEN "running" ELSE "RuntimeError",
         result |-> None,
         fig |-> fig,
         ax |-> IF a.ax = None THEN fig ELSE a.ax,
         rotations_gt |-> broadcast_gt(a.rotations_gt),
         display_rotations |->
             IF matmul_ok
             THEN [i \in DOMAIN a.rotations |-> MatMul(a.rotations[i], a.canonical_rotation)]
             ELSE <<>>]

\* Lines 180-192: the ground truth markers go on first; iterating a (3, 3)
\* ground truth left unbroadcast hands so3_to_euler a vector (IndexError).
plot_pdf_ground_truth(s, a) ==
    IF s.outcome # "running" \/ s.rotations_gt.dim = 0 THEN s
    ELSE IF s.rotations_gt.dim = 2 THEN [s EXCEPT !.outcome = "IndexError"]
    ELSE DrawAll(s, s.ax,
                 gt_markers([k \in DOMAIN s.rotations_gt.data |->
                                MatMul(s.rotations_gt.data[k], a.canonical_rotation)]))

\* Lines 166-178 and 194-200: indexing by a mask of another length raises
\* IndexError.
plot_pdf_scatter(s, a) ==
    IF s.outcome # "running" THEN s
    ELSE IF Len(a.probabilities) # Len(a.rotations)
    THEN [s EXCEPT !.outcome = "IndexError"]
    ELSE Draw(s, s.ax,
              distribution_scatter(
                  s.display_rotations, a.probabilities,
                  which_to_display(a.probabilities, a.display_threshold_probability)))

\* Lines 202-243: the grid, the color wheel, and the result.
plot_pdf_finish(s, a, fault) ==
    IF s.outcome # "running" THEN Raised(s, s.outcome)
    ELSE LET st4 == Draw(s, s.ax, Plain("grid"))
             st5 == IF a.show_color_wheel THEN color_wheel(st4, s.fig) ELSE st4
         IN  IF a.to_image THEN figure_to_array(st5, s.fig, fault)
             ELSE Returned(st5, [figure |-> s.fig])

plot_pdf(st, a, fault) ==
    plot_pdf_finish(
        plot_pdf_scatter(
            plot_pdf_ground_truth(
                plot_pdf_begin(st, a), a), a), a, fault)

\* 1e-2, as a count of 1e-4.
one_hundredth == 100

\* np.array([0.2] * 3): the angle of 0.2 radians.
Angle02 == Angle(980066578, 198669331)

\* Lines 91-99: the arguments plot_pdf gets for sample img_idx on figure fig.
panel_plot_args(probabilities, rotations, query_rotations, img_idx, fig) ==
    [rotations |-> query_rotations,
     probabilities |-> probabilities[img_idx + 1],
     rotations_gt |-> [dim |-> 2, data |-> rotations[img_idx + 1]],
     ax |-> fig,
     fig |-> fig,
     display_threshold_probability |-> [num |-> one_hundredth, den |-> Len(query_rotations)],
     to_image |-> TRUE,
     show_color_wheel |-> TRUE,
     canonical_rotation |-> euler_to_so3_one(<<Angle02, Angle02, Angle02>>)]

\* The loop of plot_pdf_panel from sample img_idx on; figure_list is what the
\* samples before it have appended.  panel_next takes plot_pdf's outcome for
\* sample img_idx: an error propagates, a result is appended.
RECURSIVE panel_loop(_, _, _, _, _, _, _, _, _)
panel_next(figure_i, images, probabilities, rotations, query_rotations, n_samples, fault, img_idx, figure_list) ==
    IF figure_i.outcome # "returned" THEN figure_i
    ELSE panel_loop(figure_i, images, probabilities, rotations, query_rotations,
                    n_samples, fault, img_idx + 1, Append(figure_list, figure_i.result))

panel_loop(st, images, probabilities, rotations, query_rotations, n_samples, fault, img_idx, figure_list) ==
    IF img_idx >= n_samples THEN Returned(st, figure_list)
    ELSE
    LET st1 == PltFigure(st, <<1200, 400>>)
        fig == NextNum(st.py)
    IN  IF img_idx + 1 > Len(images)
        THEN Raised(st1, "IndexError")
        ELSE panel_next(
                 plot_pdf(Draw(st1, Gcf(st1.py),
                               [call |-> "imshow", fig |-> None, image |-> images[img_idx + 1]]),
                          panel_plot_args(probabilities, rotations, query_rotations, img_idx, fig),
                          fault),
                 images, probabilities, rotations, query_rotations, n_samples,
                 fault, img_idx, figure_list)

plot_pdf_panel(st, images, probabilities, rotations, query_rotations, n_samples, fault) ==
    panel_loop(st, images, probabilities, rotations, query_rotations,
               IF n_samples = -1 THEN Len(images) ELSE n_samples,
               fault, 0, <<>>)

\* The default of n_samples.
default_n_samples == 6

----------------------------------------------------------------------------
(* The plotter's callers                                                   *)

MaxCallerFigures == 2

MaxQueries == 2

MaxGt == 2

MaxImages == 2

\* Probabilities, as counts of 1e-4.
ProbValues == {0, 200}

\* The fixed discretization of SO(3) the queries are taken from; its second
\* rotation is at the lock.
QueryGrid ==
    << euler_to_so3_one(<<Angle(600000000, 800000000), Angle(800000000, 600000000), Angle(-600000000, 800000000)>>),
       euler_to_so3_one(<<Angle(800000000, 600000000), HalfPiTimes(-1), ZeroAngle>>),
       euler_to_so3_one(<<Angle(-800000000, -600000000), Angle(600000000, -800000000), Angle(800000000, -600000000)>>),
       Identity3 >>

GtPool ==
    << euler_to_so3_one(<<Angle(800000000, -600000000), Angle(600000000, 800000000), Angle(600000000, 800000000)>>),
       euler_to_so3_one(<<ZeroAngle, Angle(800000000, -600000000), Angle(-800000000, 600000000)>>),
       euler_to_so3_one(<<Angle(-600000000, 800000000), ZeroAngle, Angle(800000000, 600000000)>>),
       euler_to_so3_one(<<Angle(600000000, 800000000), HalfPiTimes(1), ZeroAngle>>) >>

Prefix(q, n) == SubSeq(q, 1, n)

\* No ground truth, a single (3, 3) one, and the batches of 0..MaxGt.
GtChoices ==
    <<NoGt, [dim |-> 2, data |-> GtPool[1]]>>
    \o [k \in 1..(MaxGt + 1) |-> [dim |-> 3, data |-> Prefix(GtPool, k - 1)]]

\* Queries with their probabilities: well formed ones, one whose rotations are
\* 4x4, and one with a probability too many.
QueryChoices ==
    UNION { { [rotations |-> Prefix(QueryGrid, n), probabilities |-> p] :
                p \in [1..n -> ProbValues] } : n \in 1..MaxQueries }
    \cup { [rotations |-> <<Homogeneous44>>, probabilities |-> <<200>>],
           [rotations |-> Prefix(QueryGrid, 1), probabilities |-> <<200, 200>>] }

Thresholds == { [num |-> 0, den |-> 1], [num |-> one_hundredth, den |-> 1] }

Faults == {"none", "savefig", "decode"}

Frame(p) == [py |-> p, log |-> <<>>, created |-> {}]

NoPy == [figs |-> <<>>, canvas |-> <<>>]

IdleCall ==
    [op |-> "idle", args |-> <<>>, fault |-> "none", pre |-> NoPy,
     outcome |-> "none", result |-> None, log |-> <<>>, created |-> {}]

\* A call ends: pyplot is as the call left it, and the caller holds what the
\* call returned or raised.
Ends(op, args, fault, r) ==
    /\ pyplot' = r.py
    /\ call' = [op |-> op, args |-> args, fault |-> fault, pre |-> pyplot,
                outcome |-> r.outcome, result |-> r.result, log |-> r.log,
                created |-> r.created]

PlotInit ==
    /\ pyplot = NoPy
    /\ call = IdleCall

\* The caller opens a figure of its own and plots on it.
CallerFigure ==
    /\ call.op = "idle"
    /\ Len(pyplot.figs) < MaxCallerFigures
    /\ pyplot' = Draw(PltFigure(Frame(pyplot), DefaultFigsize), NextNum(pyplot),
                      Plain("caller_plot")).py
    /\ UNCHANGED <<call, conv_vars>>

CallPlotPdf ==
    \E q \in QueryChoices, g \in DOMAIN GtChoices, ax \in {None} \cup SeqRange(pyplot.figs),
       threshold \in Thresholds, to_image \in BOOLEAN, show_color_wheel \in BOOLEAN,
       fault \in Faults :
        /\ call.op = "idle"
        /\ ~to_image => fault = "none"
        /\ LET a == [rotations |-> q.rotations,
                     probabilities |-> q.probabilities,
                     rotations_gt |-> GtChoices[g],
                     ax |-> ax,
                     fig |-> ax,
                     display_threshold_probability |-> threshold,
                     to_image |-> to_image,
                     show_color_wheel |-> show_color_wheel,
                     canonical_rotation |-> Identity3]
           IN  Ends("plot_pdf", a, fault, plot_pdf(Frame(pyplot), a, fault))
        /\ UNCHANGED conv_vars

\* For each image a row of probabilities, all low or the first one high.
PanelRows(n_queries) ==
    { [j \in 1..n_queries |-> 50], [j \in 1..n_queries |-> IF j = 1 THEN 200 ELSE 0] }

CallPlotPdfPanel ==
    \E n \in 1..MaxImages, n_queries \in 1..MaxQueries, fault \in Faults :
      \E probabilities \in [1..n -> PanelRows(n_queries)],
         n_samples \in {-1, default_n_samples} \cup 0..n :
        /\ call.op = "idle"
        /\ LET a == [images |-> [i \in 1..n |-> i],
                     probabilities |-> probabilities,
                     rotations |-> Prefix(GtPool, n),
                     query_rotations |-> Prefix(QueryGrid, n_queries),
                     n_samples |-> n_samples]
           IN  Ends("plot_pdf_panel", a, fault,
                    plot_pdf_panel(Frame(pyplot), a.images, a.probabilities, a.rotations,
                                   a.query_rotations, a.n_samples, fault))
        /\ UNCHANGED conv_vars

CallFigureToArray ==
    \E figure \in SeqRange(pyplot.figs), fault \in Faults :
        /\ call.op = "idle"
        /\ Ends("figure_to_array", [figure |-> figure], fault,
                figure_to_array(Frame(pyplot), figure, fault))
        /\ UNCHANGED conv_vars

\* The caller takes the result, closes every figure (plt.close("all")) and
\* goes on.
CallerCleanup ==
    /\ call.op # "idle"
    /\ pyplot' = NoPy
    /\ call' = IdleCall
    /\ UNCHANGED conv_vars

PlotNext ==
    \/ CallerFigure
    \/ CallPlotPdf
    \/ CallPlotPdfPanel
    \/ CallFigureToArray
    \/ CallerCleanup

Init == ConvInit /\ PlotInit

\* The converter's callers alone, and the plotter's callers alone.
SpecConv == Init /\ [][ConvNext]_vars

SpecPlot == Init /\ [][PlotNext]_vars

----------------------------------------------------------------------------
(* Claims about the converter, checked under SpecConv                      *)

Is3x3(m) == Rows(m) = 3 /\ Cols(m) = 3

\* 1e-5
Tolerance == ONE \div 100000

\* Every entry of a is within the tolerance of the same entry of b.
Close(a, b) ==
    \A r \in 1..3 : \A c \in 1..3 : Abs(a[r][c] - b[r][c]) <= Tolerance

IdentityRoundTrip(i) ==
    conv_so3[i] = Identity3 =>
        /\ conv_eulers[i] = <<ZeroAngle, ZeroAngle, ZeroAngle>>
        /\ conv_back[i] = Identity3

\* C1 as stated: for every rotation matrix R with |R[2,0]| /= 1,
\* euler_to_so3(so3_to_euler(R)) is within 1e-5 of R in every entry, and the
\* identity maps to the angles (0, 0, 0) and back to the identity.
C1_RoundTripOffLock ==
    conv_pc = "back" =>
        \A i \in DOMAIN conv_so3 :
            Is3x3(conv_so3[i]) =>
                /\ Abs(At(conv_so3[i], 2, 0)) # ONE => Close(conv_back[i], conv_so3[i])
                /\ IdentityRoundTrip(i)

\* 0.99
LockMargin == 99 * (ONE \div 100)

\* C1 amended: for every rotation matrix R with |R[2,0]| <= 0.99,
\* euler_to_so3(so3_to_euler(R)) is within 1e-5 of R in every entry, and the
\* identity maps to the angles (0, 0, 0) and back to the identity.
C1_RoundTripAwayFromLock ==
    conv_pc = "back" =>
        \A i \in DOMAIN conv_so3 :
            Is3x3(conv_so3[i]) =>
                /\ Abs(At(conv_so3[i], 2, 0)) <= LockMargin => Close(conv_back[i], conv_so3[i])
                /\ IdentityRoundTrip(i)

\* A rotation with |R[2,0]| = 0.99 has gone through both conversions and come
\* back changed, and the identity has gone through them too.
C1_Witness ==
    /\ conv_pc = "back"
    /\ Len(conv_so3) = 2
    /\ Abs(At(conv_so3[1], 2, 0)) = LockMargin
    /\ conv_back[1] # conv_so3[1]
    /\ Abs(At(conv_so3[2], 2, 0)) < LockMargin

PerturbedAwayFromZero(x) == IF x >= 0 THEN x + eps_addition ELSE x - eps_addition

\* C2: for each matrix of the batch by itself, so3_to_euler returns the
\* gimbal-lock result exactly when |R[2,0]| = 1: theta_y = -pi/2 for
\* R[2,0] = +1 and +pi/2 for R[2,0] = -1, theta_z = 0 and
\* theta_x = atan2(-sign * R[0,1], -sign * R[0,2]') with R[0,2]' moved away from
\* zero by 2.38e-7; otherwise it returns the general result, theta_y =
\* -arcsin(R[2,0]), theta_z = atan2(R[1,0], R[0,0]'), theta_x = atan2(R[2,1], R[2,2]').
C2_GimbalSelection ==
    conv_pc \in {"euler", "back"} =>
        \A i \in DOMAIN conv_so3 :
            Is3x3(conv_so3[i]) =>
                LET m == conv_so3[i]
                    r20 == At(m, 2, 0)
                    r02 == PerturbedAwayFromZero(At(m, 0, 2))
                    e == conv_eulers[i]
                IN  /\ (Abs(r20) = ONE) <=> (e[2] \in {HalfPiTimes(1), HalfPiTimes(-1)})
                    /\ r20 = ONE =>
                          e = <<Atan2(-At(m, 0, 1), -r02), HalfPiTimes(-1), ZeroAngle>>
                    /\ r20 = -ONE =>
                          e = <<Atan2(At(m, 0, 1), r02), HalfPiTimes(1), ZeroAngle>>
                    /\ Abs(r20) # ONE =>
                          e = << Atan2(At(m, 2, 1), PerturbedAwayFromZero(At(m, 2, 2))),
                                 NegAngle(ArcSin(r20)),
                                 Atan2(At(m, 1, 0), PerturbedAwayFromZero(At(m, 0, 0))) >>

\* A batch of a general rotation followed by a lock has been converted.
C2_Witness ==
    /\ conv_pc = "euler"
    /\ Len(conv_so3) = 2
    /\ Is3x3(conv_so3[1])
    /\ Abs(At(conv_so3[1], 2, 0)) # ONE
    /\ At(conv_so3[2], 2, 0) = ONE
    /\ conv_eulers[2][2] = HalfPiTimes(-1)
    /\ conv_eulers[1][2] # HalfPiTimes(-1)

\* C6 (converter): a conversion given a matrix that is not 3x3 never returns a
\* result computed from it.
C6_NoResultFromMalformed ==
    conv_pc = "euler" => \A i \in DOMAIN conv_so3 : Is3x3(conv_so3[i])

\* C8: so3_to_axis_angle returns (angle, axis) with angle the N norms of the
\* axis-angle vectors and axis the N 3-vectors that are those vectors
\* normalized to unit length.
C8_AxisIsNormalizedOmega ==
    conv_pc = "axis" =>
        LET omega == rotation_matrix_to_angle_axis(conv_so3)
        IN  /\ conv_axis_angle.angle_shape = <<Len(conv_so3)>>
            /\ \A i \in DOMAIN conv_so3 : conv_axis_angle.angle[i] = Norm(omega[i])
            /\ conv_axis_angle.axis_shape = <<Len(conv_so3), 3>>
            /\ \A i \in DOMAIN conv_so3 : conv_axis_angle.axis[i] = NormalizeVec(omega[i])


----------------------------------------------------------------------------
(* Claims about the plotter, checked under SpecPlot                        *)

\* A plot_pdf call that ran through all of its drawing.
Drew == call.op = "plot_pdf" /\ call.outcome \in {"returned", "RenderBackendError"}

\* The scatter calls that draw the distribution, and those of single markers.
DistributionScatters(log) ==
    SelectSeq(log, LAMBDA e : e.call = "scatter" /\ e.marker = "default")

SingleMarkers(log) ==
    SelectSeq(log, LAMBDA e : e.call = "scatter" /\ e.marker = "o")

\* The indices of the probabilities (counts of 1e-4) above num/den, in order.
Displayed(probabilities, num, den) ==
    SelectSeq([i \in DOMAIN probabilities |-> i], LAMBDA i : probabilities[i] * den > num)

\* C3 as stated: when a rasterizing render call (plot_pdf with to_image that
\* makes its own figure, or plot_pdf_panel) has ended, by a return or by an
\* error, none of the figures it created is still open.
C3_CreatedFiguresClosed ==
    (\/ call.op = "plot_pdf" /\ call.args.to_image /\ call.args.ax = None
     \/ call.op = "plot_pdf_panel")
        => call.created \cap SeqRange(pyplot.figs) = {}

\* C4: a plot_pdf call makes one distribution scatter call, and its points are
\* exactly the queries whose probability is above the threshold, in order, one
\* marker each (none when no probability is above it).
C4_ThresholdFiltering ==
    Drew =>
        LET a == call.args
            shown == Displayed(a.probabilities, a.display_threshold_probability.num,
                               a.display_threshold_probability.den)
            d == DistributionScatters(call.log)
        IN  /\ Len(d) = 1
            /\ Len(d[1].x) = Len(shown)
            /\ Len(d[1].y) = Len(shown)
            /\ Len(d[1].s) = Len(shown)
            /\ Len(d[1].c) = Len(shown)
            /\ \A k \in DOMAIN shown :
                 /\ d[1].x[k] = longitude_of(MatMul(a.rotations[shown[k]], a.canonical_rotation))
                 /\ d[1].y[k] = latitude_of(MatMul(a.rotations[shown[k]], a.canonical_rotation))
                 /\ d[1].s[k] = scatterpoint_scaling * a.probabilities[shown[k]]

\* Two queries, one above the threshold and one not: one marker is drawn.
C4_Witness ==
    /\ Drew
    /\ Len(call.args.probabilities) = 2
    /\ Len(Displayed(call.args.probabilities, call.args.display_threshold_probability.num,
                     call.args.display_threshold_probability.den)) = 1
    /\ Len(DistributionScatters(call.log)[1].x) = 1

\* The size of a ground truth, and its k-th rotation.
GtCount(gt) == IF gt.dim = 0 THEN 0 ELSE IF gt.dim = 2 THEN 1 ELSE Len(gt.data)

GtAt(gt, k) == IF gt.dim = 2 THEN gt.data ELSE gt.data[k]

\* A single marker drawn where rotation projects to.
MarkerAt(e, rotation) ==
    /\ e.call = "scatter"
    /\ e.marker = "o"
    /\ e.x = <<longitude_of(rotation)>>
    /\ e.y = <<latitude_of(rotation)>>

\* C5: with a ground truth of K rotations a plot_pdf call makes exactly 2K
\* single-marker draw calls, and they are its first 2K draw calls: the K
\* outlined markers, then the K white edgeless ones, of the same rotations in
\* the same order; the distribution scatter comes right after.  Without a
\* ground truth there are none.
C5_GroundTruthMarkersFirst ==
    Drew =>
        LET a == call.args
            K == GtCount(a.rotations_gt)
        IN  /\ Len(SingleMarkers(call.log)) = 2 * K
            /\ Len(call.log) > 2 * K
            /\ \A k \in 1..K :
                 /\ MarkerAt(call.log[k], MatMul(GtAt(a.rotations_gt, k), a.canonical_rotation))
                 /\ call.log[k].edgecolors =
                        Cmap(so3_to_euler(<<MatMul(GtAt(a.rotations_gt, k), a.canonical_rotation)>>)[1][1])
                 /\ call.log[k].facecolors = "none"
                 /\ MarkerAt(call.log[K + k], MatMul(GtAt(a.rotations_gt, k), a.canonical_rotation))
                 /\ call.log[K + k].edgecolors = NoColor
                 /\ call.log[K + k].facecolors = "#ffffff"
            /\ call.log[2 * K + 1].call = "scatter"
            /\ call.log[2 * K + 1].marker = "default"

\* A ground truth of two rotations that project to different points.
C5_Witness ==
    /\ Drew
    /\ GtCount(call.args.rotations_gt) = 2
    /\ Len(call.log) >= 5
    /\ call.log[1].x # call.log[2].x

\* The samples images[:n_samples] of N images, all of them when n_samples is -1.
SampleCount(n_samples, N) ==
    IF n_samples = -1 \/ n_samples > N THEN N ELSE n_samples

\* C7 as stated: a plot_pdf_panel call (the rendering backend working) returns
\* one pixel buffer per sample, for the first n_samples of the images in order,
\* or for all of them when n_samples is -1; the i-th shows images[i], the
\* marker of rotations[i], and the queries whose probabilities[i] are above
\* 1e-2 / number_of_queries.
C7_PanelResult ==
    call.op = "plot_pdf_panel" /\ call.fault = "none" =>
        LET a == call.args
            count == SampleCount(a.n_samples, Len(a.images))
            canonical == panel_plot_args(a.probabilities, a.rotations, a.query_rotations,
                                         0, None).canonical_rotation
        IN  /\ call.outcome = "returned"
            /\ Len(call.result) = count
            /\ \A i \in 1..count :
                 /\ call.result[i].raster[1].call = "imshow"
                 /\ call.result[i].raster[1].image = a.images[i]
                 /\ MarkerAt(call.result[i].raster[2], MatMul(a.rotations[i], canonical))
                 /\ Len(DistributionScatters(call.result[i].raster)[1].x)
                      = Len(Displayed(a.probabilities[i], one_hundredth, Len(a.query_rotations)))

\* C9: a plot_pdf call with a single (3, 3) ground truth G makes the same draw
\* calls with the same arguments, and ends the same way with the same result,
\* as the call with the batch of G alone from the same state of pyplot.
C9_SingleGroundTruthIsBatchOfOne ==
    call.op = "plot_pdf" /\ call.args.rotations_gt.dim = 2 =>
        LET batch == plot_pdf(Frame(call.pre),
                              [call.args EXCEPT
                                  !.rotations_gt = [dim |-> 3, data |-> <<call.args.rotations_gt.data>>]],
                              call.fault)
        IN  /\ call.log = batch.log
            /\ call.outcome = batch.outcome
            /\ call.result = batch.result

\* A call with a single ground truth that drew its two markers and returned.
C9_Witness ==
    /\ call.op = "plot_pdf"
    /\ call.args.rotations_gt.dim = 2
    /\ call.outcome = "returned"
    /\ Len(SingleMarkers(call.log)) = 2

\* What is on figure f after the call: what was on it before, and what the call
\* drew on it.
PaintedOn(f, figsize) ==
    [size |-> figsize,
     raster |-> (IF f \in DOMAIN call.pre.canvas THEN call.pre.canvas[f].artists ELSE <<>>)
                    \o SelectSeq(call.log, LAMBDA e : e.fig = f)]

\* C10 as stated: figure_to_array returns the pixels of the figure it is given
\* and closes that figure and no other; plot_pdf with to_image returns the
\* pixels of the figure it painted, the one passed in or the one it created.
C10_RasterizesGivenFigure ==
    /\ call.op = "figure_to_array" /\ call.outcome = "returned" =>
         /\ call.result = Pixels(call.pre.canvas[call.args.figure])
         /\ pyplot.figs = SelectSeq(call.pre.figs, LAMBDA k : k # call.args.figure)
    /\ call.op = "plot_pdf" /\ call.args.to_image /\ call.outcome = "returned" =>
         IF call.args.ax = None
         THEN call.result = PaintedOn(NextNum(call.pre), <<800, 400>>)
         ELSE call.result = PaintedOn(call.args.fig, call.pre.canvas[call.args.fig].figsize)

====
